---------------------------- MODULE Spec2Model ----------------------------
(***************************************************************************)
(* Model of voice_enabled_erp.py: the slot extractors, the confidence      *)
(* gate, the request assembler, the turn logic (process_input) and the     *)
(* Gradio event handlers of create_interface with the session they share   *)
(* (last_request).                                                         *)
(*                                                                         *)
(* A Python str is a sequence of one-character strings, so that `in`,      *)
(* split, replace, strip, lower and isdigit are computed character by      *)
(* character as Python computes them.  An optional value is None == <<>>   *)
(* or Some(v) == <<v>>.  A confidence score is kept in tenths.             *)
(***************************************************************************)
EXTENDS Integers, Sequences, FiniteSets, TLC

None == <<>>
Some(v) == <<v>>
Val(o) == o[1]

(***************************************************************************)
(* Python str operations                                                   *)
(***************************************************************************)
Digits == {"0", "1", "2", "3", "4", "5", "6", "7", "8", "9"}

DigitVal(c) ==
  CASE c = "0" -> 0 [] c = "1" -> 1 [] c = "2" -> 2 [] c = "3" -> 3
    [] c = "4" -> 4 [] c = "5" -> 5 [] c = "6" -> 6 [] c = "7" -> 7
    [] c = "8" -> 8 [] c = "9" -> 9

\* str.lower() on one character (the upper-case letters the inputs use)
LowerChar(c) ==
  CASE c = "P" -> "p" [] c = "C" -> "c" [] c = "N" -> "n" [] c = "A" -> "a"
    [] OTHER -> c

lower(s) == [i \in 1..Len(s) |-> LowerChar(s[i])]

\* s.find(sub), 1-based; 0 when sub does not occur in s
Find(s, sub) ==
  LET hits == {i \in 1..(Len(s) - Len(sub) + 1) :
                 SubSeq(s, i, i + Len(sub) - 1) = sub}
  IN IF hits = {} THEN 0
     ELSE CHOOSE i \in hits : \A j \in hits : i <= j

\* sub in s
In(sub, s) == Find(s, sub) # 0

\* s.split(sep) for a non-empty sep: the pieces between the occurrences
RECURSIVE split(_, _)
split(s, sep) ==
  LET i == Find(s, sep)
  IN IF i = 0 THEN <<s>>
     ELSE <<SubSeq(s, 1, i - 1)>> \o split(SubSeq(s, i + Len(sep), Len(s)), sep)

\* s.split(): the maximal runs of non-blank characters
RECURSIVE split_ws(_)
split_ws(s) ==
  IF s = <<>> THEN <<>>
  ELSE IF Head(s) = " " THEN split_ws(Tail(s))
  ELSE LET sp == Find(s, <<" ">>)
       IN IF sp = 0 THEN <<s>>
          ELSE <<SubSeq(s, 1, sp - 1)>> \o split_ws(SubSeq(s, sp + 1, Len(s)))

\* s.strip()
RECURSIVE lstrip(_)
lstrip(s) == IF s # <<>> /\ Head(s) = " " THEN lstrip(Tail(s)) ELSE s

RECURSIVE rstrip(_)
rstrip(s) ==
  IF s # <<>> /\ s[Len(s)] = " " THEN rstrip(SubSeq(s, 1, Len(s) - 1)) ELSE s

strip(s) == rstrip(lstrip(s))

\* s.replace(old, new): every occurrence, left to right
RECURSIVE replace(_, _, _)
replace(s, old, new) ==
  LET i == Find(s, old)
  IN IF i = 0 THEN s
     ELSE SubSeq(s, 1, i - 1) \o new
          \o replace(SubSeq(s, i + Len(old), Len(s)), old, new)

\* s.isdigit()
isdigit(s) == s # <<>> /\ \A i \in 1..Len(s) : s[i] \in Digits

\* "".join(filter(str.isdigit, s))
RECURSIVE filter_isdigit(_)
filter_isdigit(s) ==
  IF s = <<>> THEN <<>>
  ELSE IF Head(s) \in Digits THEN <<Head(s)>> \o filter_isdigit(Tail(s))
  ELSE filter_isdigit(Tail(s))

\* float(numbers) for a non-empty string of digits
RECURSIVE float(_)
float(numbers) ==
  IF numbers = <<>> THEN 0
  ELSE 10 * float(SubSeq(numbers, 1, Len(numbers) - 1))
       + DigitVal(numbers[Len(numbers)])

\* " ".join(words)
RECURSIVE Join(_)
Join(words) ==
  IF words = <<>> THEN <<>>
  ELSE IF Len(words) = 1 THEN words[1]
  ELSE words[1] \o <<" ">> \o Join(Tail(words))

(***************************************************************************)
(* The string literals of the program                                      *)
(***************************************************************************)
s_project == <<"p", "r", "o", "j", "e", "c", "t">>

s_to == <<"t", "o">>

s_buy == <<"b", "u", "y">>

s_for == <<"f", "o", "r">>

s_the == <<"t", "h", "e">>

s_to_buy == <<"t", "o", " ", "b", "u", "y">>

s_amount == <<"a", "m", "o", "u", "n", "t">>

s_and == <<"a", "n", "d">>

s_the_amount == <<"t", "h", "e", " ", "a", "m", "o", "u", "n", "t">>

s_i_need == <<"i", " ", "n", "e", "e", "d">>

s_riyals == <<"r", "i", "y", "a", "l", "s">>

s_purchase == <<"p", "u", "r", "c", "h", "a", "s", "e">>

s_equipment == <<"e", "q", "u", "i", "p", "m", "e", "n", "t">>

s_supplies == <<"s", "u", "p", "p", "l", "i", "e", "s">>

s_services == <<"s", "e", "r", "v", "i", "c", "e", "s">>

s_maintenance == <<"m", "a", "i", "n", "t", "e", "n", "a", "n", "c", "e">>

s_buy_sp == <<"b", "u", "y", " ">>

s_for_the_project == <<"f", "o", "r", " ", "t", "h", "e", " ", "p", "r", "o", "j", "e", "c", "t">>

CouldNotUnderstandAudio == <<"C", "o", "u", "l", "d", " ", "n", "o", "t", " ", "u", "n", "d", "e", "r", "s", "t", "a", "n", "d", " ", "a", "u", "d", "i", "o">>

NoInputProvided == <<"N", "o", " ", "i", "n", "p", "u", "t", " ", "p", "r", "o", "v", "i", "d", "e", "d">>

(***************************************************************************)
(* The NLP ports.  A call returns [status, value]: status "ok" with the    *)
(* pipeline's output, or "raise" when the call throws; "notcalled" marks   *)
(* a pipeline the assembly pass did not reach.                             *)
(***************************************************************************)
Ok(v) == [status |-> "ok", value |-> v]

Raise == [status |-> "raise", value |-> <<>>]

NotCalled == [status |-> "notcalled", value |-> <<>>]

Entity(w, e) == [word |-> w, entity |-> e]

\* an audio file: sr.AudioFile raises when it is not readable,
\* recognize_whisper raises when transcript is None
Audio(r, t) == [readable |-> r, transcript |-> t]

(***************************************************************************)
(* ERPAssistant.extract_project_id                                         *)
(***************************************************************************)
\* the loop over the NER entities: the first one whose word lies in
\* project_part and whose tag is accepted
RECURSIVE ner_scan(_, _)
ner_scan(entities, project_part) ==
  IF entities = <<>> THEN None
  ELSE IF In(Head(entities).word, project_part)
          /\ Head(entities).entity \in {"ORG", "MISC", "NUM"}
       THEN Some(Head(entities).word)
       ELSE ner_scan(Tail(entities), project_part)

\* the loop over project_words; text.split("project")[1] raises IndexError
\* when the text has no lower-case "project"
RECURSIVE keyword_scan(_, _)
keyword_scan(project_words, text) ==
  IF project_words = <<>> THEN None
  ELSE LET word == Head(project_words) IN
       IF isdigit(word) THEN Some(word)
       ELSE IF word \notin {s_to, s_for, s_the, s_buy}
       THEN IF Len(split(text, s_project)) < 2 THEN None
            ELSE LET possible_name ==
                       strip(split(split(text, s_project)[2], s_to_buy)[1])
                 IN IF possible_name # <<>>
                       /\ ~In(s_amount, lower(possible_name))
                    THEN Some(possible_name)
                    ELSE keyword_scan(Tail(project_words), text)
       ELSE keyword_scan(Tail(project_words), text)

\* extract_project_id without the "to"/"buy" disqualification of the first
\* word after "project"
extract_project_id_no_rule(text, ner) ==
  IF ~In(s_project, lower(text)) THEN None
  ELSE IF ner.status # "ok" THEN None
  ELSE LET project_part == split(lower(text), s_project)[2]
           project_words == split_ws(project_part)
       IN IF project_words = <<>> THEN None
          ELSE LET found == ner_scan(ner.value, project_part)
               IN IF found # None THEN found
                  ELSE keyword_scan(project_words, text)

extract_project_id(text, ner) ==
  IF ~In(s_project, lower(text)) THEN None
  ELSE IF ner.status # "ok" THEN None
  ELSE LET project_part == split(lower(text), s_project)[2]
           project_words == split_ws(project_part)
       IN IF project_words = <<>> THEN None
          ELSE IF In(s_to, project_words[1]) \/ In(s_buy, project_words[1])
          THEN None
          ELSE LET found == ner_scan(ner.value, project_part)
               IN IF found # None THEN found
                  ELSE keyword_scan(project_words, text)

(***************************************************************************)
(* ERPAssistant.extract_amount                                             *)
(***************************************************************************)
\* extract_amount giving 0 when the answer has no digit
extract_amount_zero_default(text, qa) ==
  IF qa.status # "ok" THEN None
  ELSE LET numbers == filter_isdigit(qa.value)
       IN Some(float(numbers))

extract_amount(text, qa) ==
  IF qa.status # "ok" THEN None
  ELSE LET numbers == filter_isdigit(qa.value)
       IN IF numbers # <<>> THEN Some(float(numbers)) ELSE None

(***************************************************************************)
(* ERPAssistant.extract_reason                                             *)
(***************************************************************************)
\* the loop over the splitters, each cutting what the previous one left
RECURSIVE cut_splitters(_, _)
cut_splitters(buy_part, splitters) ==
  IF splitters = <<>> THEN buy_part
  ELSE IF In(Head(splitters), buy_part)
       THEN cut_splitters(split(buy_part, Head(splitters))[1], Tail(splitters))
       ELSE cut_splitters(buy_part, Tail(splitters))

extract_reason(text, zero_shot) ==
  IF ~In(s_buy, lower(text)) THEN None
  ELSE LET buy_part == cut_splitters(split(lower(text), s_buy)[2],
                                     <<s_and, s_the_amount, s_i_need>>)
       IN IF zero_shot.status # "ok" \/ zero_shot.value = <<>> THEN None
          ELSE LET top_category == zero_shot.value[1]
               IN Some(s_buy_sp \o strip(buy_part) \o <<" ">>
                       \o s_for_the_project \o <<" ", "(">> \o top_category
                       \o <<")">>)

(***************************************************************************)
(* ERPAssistant._get_confidence, in tenths.  An amount is always the float *)
(* extract_amount returned, a project_id or reason always a str.           *)
(***************************************************************************)
_get_confidence(field, value) ==
  IF value = None THEN 0
  ELSE IF field = "amount" THEN 10
  ELSE IF field = "project_id" /\ (isdigit(Val(value)) \/ Len(Val(value)) > 2)
  THEN 9
  ELSE IF field = "reason" /\ Len(Val(value)) > 10 THEN 8
  ELSE 5

threshold == 5

(***************************************************************************)
(* ERPAssistant.process_request                                            *)
(***************************************************************************)
\* Accept with the threshold met by a score equal to it
Accept_at_threshold(field, value) ==
  IF _get_confidence(field, value) >= threshold THEN value ELSE None

Accept(field, value) ==
  IF _get_confidence(field, value) > threshold THEN value ELSE None

\* process_request with one try around the three extractors: a call that
\* throws leaves the request empty
process_request_one_try(text, ner, qa, zero_shot) ==
  IF ner.status = "raise" \/ qa.status = "raise" \/ zero_shot.status = "raise"
  THEN [project_id |-> None, amount |-> None, reason |-> None]
  ELSE [project_id |-> Accept("project_id", extract_project_id(text, ner)),
        amount     |-> Accept("amount", extract_amount(text, qa)),
        reason     |-> Accept("reason", extract_reason(text, zero_shot))]

process_request(text, ner, qa, zero_shot) ==
  LET results == [project_id |-> extract_project_id(text, ner),
                  amount     |-> extract_amount(text, qa),
                  reason     |-> extract_reason(text, zero_shot)]
  IN [project_id |-> Accept("project_id", results.project_id),
      amount     |-> Accept("amount", results.amount),
      reason     |-> Accept("reason", results.reason)]

\* MoneyRequest(): the class-level defaults
MoneyRequest == [project_id |-> None, amount |-> None, reason |-> None]

(***************************************************************************)
(* Inputs: what the user types or says, and what the pipelines answer      *)
(***************************************************************************)
w_223 == <<"2", "2", "3">>

w_500 == <<"5", "0", "0">>

w_0 == <<"0">>

w_alpha == <<"a", "l", "p", "h", "a">>

w_ab == <<"a", "b">>

w_tools == <<"t", "o", "o", "l", "s">>

w_Project == <<"P", "r", "o", "j", "e", "c", "t">>

Utterances ==
  { Join(<<s_project, w_223, s_to, s_buy, w_tools>>),
    Join(<<s_project, s_to, s_buy, w_tools, s_for, s_project>>),
    Join(<<s_project, w_223>>),
    Join(<<s_project, w_alpha>>),
    Join(<<s_project, w_ab, s_to, s_buy, w_tools>>),
    Join(<<w_Project, s_to, s_buy, w_tools>>),
    Join(<<s_buy, w_tools>>) }

Fragments ==
  { w_223, w_500, w_tools, Join(<<s_buy, w_tools>>), s_the_amount }

TextInputs == {None, Some(<<>>)} \cup {Some(u) : u \in Utterances}

AudioInputs ==
  { Some(Audio(FALSE, None)), Some(Audio(TRUE, None)),
    Some(Audio(TRUE, Some(Join(<<s_project, w_223>>)))) }

AdditionalTextInputs == {None} \cup {Some(f) : f \in Fragments}

AdditionalAudioInputs ==
  { Some(Audio(FALSE, None)), Some(Audio(TRUE, None)),
    Some(Audio(TRUE, Some(w_500))) }

categories == <<s_purchase, s_equipment, s_supplies, s_services, s_maintenance>>

NerResponses ==
  { Raise, Ok(<<>>),
    Ok(<<Entity(w_alpha, "PER"), Entity(w_tools, "ORG")>>) }

QaResponses ==
  { Raise, Ok(Join(<<w_500, s_riyals>>)), Ok(w_0), Ok(w_tools),
    Ok(<<"-", "5">>) }

ZeroShotResponses == { Raise, Ok(categories) }

\* the responses an assembly pass over text can meet: the NER pipeline is
\* called only when the text has "project", the zero-shot pipeline only
\* when it has "buy"
Ports(n, q, z) == [ner |-> n, qa |-> q, zero_shot |-> z]

NoPorts == Ports(NotCalled, NotCalled, NotCalled)

PortsFor(text) ==
  { Ports(n, q, z) :
      n \in IF In(s_project, lower(text)) THEN NerResponses ELSE {NotCalled},
      q \in QaResponses,
      z \in IF In(s_buy, lower(text)) THEN ZeroShotResponses ELSE {NotCalled} }

\* merge with the amount fragment appended without its unit
merge_no_unit(lr, fragment) ==
  IF lr.missing_field = Some("project")
  THEN Some(replace(Val(lr.text), s_project, s_project \o <<" ">> \o fragment))
  ELSE IF lr.missing_field = Some("amount")
  THEN Some(Val(lr.text) \o <<" ">> \o fragment)
  ELSE IF lr.missing_field = Some("reason")
  THEN Some(Val(lr.text) \o <<" ">> \o s_to \o <<" ">> \o fragment)
  ELSE lr.text

\* the slot-specific merge of a fragment into last_request["text"]
merge(lr, fragment) ==
  IF lr.missing_field = Some("project")
  THEN Some(replace(Val(lr.text), s_project, s_project \o <<" ">> \o fragment))
  ELSE IF lr.missing_field = Some("amount")
  THEN Some(Val(lr.text) \o <<" ">> \o fragment \o <<" ">> \o s_riyals)
  ELSE IF lr.missing_field = Some("reason")
  THEN Some(Val(lr.text) \o <<" ">> \o s_to \o <<" ">> \o fragment)
  ELSE lr.text

(***************************************************************************)
(* The texts the model can hand to the assembler: what Process accepts or  *)
(* reports and one merge of a fragment into it.  process_request is        *)
(* tabulated over them, so that TLC computes each assembly once.           *)
(***************************************************************************)
Transcripts == {Join(<<s_project, w_223>>), w_500}

SubmittedTexts ==
  Utterances \cup Transcripts \cup {w_tools, w_223}
  \cup {CouldNotUnderstandAudio, NoInputProvided}

Texts ==
  SubmittedTexts
  \cup { Val(merge([text |-> Some(t), missing_field |-> Some(m)], f)) :
           t \in SubmittedTexts, m \in {"project", "amount", "reason"},
           f \in Fragments \cup Transcripts \cup {w_223} }

ports_table == [t \in Texts |-> PortsFor(t)]

process_request_table ==
  [t \in Texts |->
     [p \in ports_table[t] |-> process_request(t, p.ner, p.qa, p.zero_shot)]]

\* self.process_request(text)
call_process_request(text, ner, qa, zero_shot) ==
  process_request_table[text][Ports(ner, qa, zero_shot)]

(***************************************************************************)
(* Messages.  A message is its template and the values formatted into it.  *)
(***************************************************************************)
Msg(t, f) == [template |-> t, fields |-> f]

EmptyMsg == Msg("", <<>>)

ProjectPrompt ==
  Msg("Can you provide me the project name you are trying to request money for?", <<>>)

AmountPrompt == Msg("Can you specify the amount you need in riyals?", <<>>)

ReasonPrompt == Msg("Can you provide the reason for this money request?", <<>>)

\* ERPAssistant.generate_confirmation_message
generate_confirmation_message(request) ==
  Msg("You are going to add request money for\nproject: {}\nrequest amount: {}\nreason: {}\nAre you sure you want to proceed?",
      <<request.project_id, request.amount, request.reason>>)

(***************************************************************************)
(* ERPAssistant.process_input.  An audio file is [readable, transcript]:   *)
(* sr.AudioFile raises on an unreadable file, recognize_whisper raises     *)
(* when transcript is None.  The returned record carries the function's    *)
(* 4-tuple and, in request, the local request (None when no assembly ran). *)
(***************************************************************************)
\* Python truthiness of an optional str / optional float
Truthy(o) == o # None /\ Val(o) # <<>>

TruthyNum(o) == o # None /\ Val(o) # 0

Return(rt, resp, sc, mf, req) ==
  [missing_field |-> mf, request |-> req, recognized_text |-> rt,
   response |-> resp, show_confirm |-> sc]

\* the text the turn works on: None when the audio cannot be transcribed
transcribed(audio_path, text_input) ==
  IF audio_path # None
  THEN IF Val(audio_path).readable THEN Val(audio_path).transcript ELSE None
  ELSE text_input

\* process_input with the amount checked before the project
process_input_amount_first(audio_path, text_input, ner, qa, zero_shot) ==
  IF audio_path # None /\ transcribed(audio_path, text_input) = None
  THEN Return(CouldNotUnderstandAudio, EmptyMsg, FALSE, None, None)
  ELSE LET text == transcribed(audio_path, text_input) IN
       IF ~Truthy(text)
       THEN Return(NoInputProvided, EmptyMsg, FALSE, None, None)
       ELSE LET request == call_process_request(Val(text), ner, qa, zero_shot) IN
            IF ~TruthyNum(request.amount)
            THEN Return(Val(text), AmountPrompt, FALSE, Some("amount"),
                        Some(request))
            ELSE IF ~Truthy(request.project_id)
            THEN Return(Val(text), ProjectPrompt, FALSE, Some("project"),
                        Some(request))
            ELSE IF ~Truthy(request.reason)
            THEN Return(Val(text), ReasonPrompt, FALSE, Some("reason"),
                        Some(request))
            ELSE Return(Val(text), generate_confirmation_message(request),
                        TRUE, None, Some(request))

process_input(audio_path, text_input, ner, qa, zero_shot) ==
  IF audio_path # None /\ transcribed(audio_path, text_input) = None
  THEN Return(CouldNotUnderstandAudio, EmptyMsg, FALSE, None, None)
  ELSE LET text == transcribed(audio_path, text_input) IN
       IF ~Truthy(text)
       THEN Return(NoInputProvided, EmptyMsg, FALSE, None, None)
       ELSE LET request == call_process_request(Val(text), ner, qa, zero_shot) IN
            IF ~Truthy(request.project_id)
            THEN Return(Val(text), ProjectPrompt, FALSE, Some("project"),
                        Some(request))
            ELSE IF ~TruthyNum(request.amount)
            THEN Return(Val(text), AmountPrompt, FALSE, Some("amount"),
                        Some(request))
            ELSE IF ~Truthy(request.reason)
            THEN Return(Val(text), ReasonPrompt, FALSE, Some("reason"),
                        Some(request))
            ELSE Return(Val(text), generate_confirmation_message(request),
                        TRUE, None, Some(request))

\* the responses a turn on (audio, text) can meet: none when the turn
\* returns before the assembly
TurnPorts(audio_path, text_input) ==
  IF Truthy(transcribed(audio_path, text_input))
  THEN ports_table[Val(transcribed(audio_path, text_input))]
  ELSE {NoPorts}

(***************************************************************************)
(* State                                                                   *)
(***************************************************************************)
VARIABLES
  last_request,            \* create_interface: {"text", "missing_field"}
  recognized_text,         \* gr.Textbox "Recognized Text"
  response_text,           \* gr.Textbox "Assistant Response"
  confirmation_group,      \* visible?
  additional_input_group,  \* visible?
  result,                  \* gr.Textbox "Status"
  last_call                \* the most recent handler call: its arguments,
                           \* the pipeline responses it met, its locals and
                           \* the row it appended to requests.csv

vars == <<last_request, recognized_text, response_text, confirmation_group,
          additional_input_group, result, last_call>>

Call(op, frag, txt, ports, ret, row) ==
  [text |-> txt, fragment |-> frag, op |-> op, ports |-> ports,
   ret |-> ret, appended |-> row]

Init ==
  /\ last_request = [text |-> None, missing_field |-> None]
  /\ recognized_text = <<>>
  /\ response_text = EmptyMsg
  /\ confirmation_group = FALSE
  /\ additional_input_group = FALSE
  /\ result = ""
  /\ last_call = Call("none", None, None, NoPorts, None, None)

(***************************************************************************)
(* create_interface.process (submit_btn)                                   *)
(***************************************************************************)
process(audio, text, p) ==
  \E ret \in {process_input(audio, text, p.ner, p.qa, p.zero_shot)} :
    /\ last_request' = [text |-> Some(ret.recognized_text),
                        missing_field |-> ret.missing_field]
    /\ recognized_text' = ret.recognized_text
    /\ response_text' = IF ret.missing_field # None
                        THEN Msg("Please speak the {}", ret.missing_field)
                        ELSE ret.response
    /\ confirmation_group' = (ret.missing_field = None)
    /\ additional_input_group' = (ret.missing_field # None)
    /\ last_call' = Call("process", None, transcribed(audio, text), p,
                         Some(ret), None)
    /\ UNCHANGED result

Process ==
  \E audio \in {None} \cup AudioInputs :
    \E text \in IF audio = None THEN TextInputs ELSE {None, Some(w_tools)} :
      \E p \in TurnPorts(audio, text) : process(audio, text, p)

(***************************************************************************)
(* create_interface.handle_additional_input (additional_submit_btn)        *)
(***************************************************************************)
\* the fragment of a follow-up: None when there is none to merge
fragment_of(audio, text) ==
  IF audio # None THEN Val(audio).transcript
  ELSE IF Truthy(text) THEN text ELSE None

handle_additional_input(audio, text, p) ==
  IF audio # None /\ ~Val(audio).readable
  THEN \* sr.AudioFile raises outside the try: no output is updated
       /\ last_call' = Call("handle_additional_input", None, None, NoPorts,
                            None, None)
       /\ UNCHANGED <<last_request, recognized_text, response_text,
                      confirmation_group, additional_input_group, result>>
  ELSE IF fragment_of(audio, text) = None
  THEN /\ recognized_text' = <<>>
       /\ response_text' = IF audio # None
                           THEN Msg("Could not understand audio. Please try again.", <<>>)
                           ELSE Msg("Invalid input", <<>>)
       /\ additional_input_group' = TRUE
       /\ confirmation_group' = FALSE
       /\ last_call' = Call("handle_additional_input", None, None, NoPorts,
                            None, None)
       /\ UNCHANGED <<last_request, result>>
  ELSE \E fragment \in {Val(fragment_of(audio, text))} :
       \E full_text \in {merge(last_request, fragment)} :
       \E ret \in {process_input(None, full_text, p.ner, p.qa, p.zero_shot)} :
          /\ recognized_text' = ret.recognized_text
          /\ response_text' = ret.response
          /\ additional_input_group' = FALSE
          /\ confirmation_group' = TRUE
          /\ last_call' = Call("handle_additional_input", Some(fragment),
                               full_text, p, Some(ret), None)
          /\ UNCHANGED <<last_request, result>>

HandleAdditionalInput ==
  /\ additional_input_group
  /\ \E audio \in {None} \cup AdditionalAudioInputs :
       \E text \in IF audio = None THEN AdditionalTextInputs
                   ELSE {None, Some(w_223)} :
         \E p \in IF fragment_of(audio, text) = None THEN {NoPorts}
                  ELSE TurnPorts(None, merge(last_request,
                                             Val(fragment_of(audio, text)))) :
           handle_additional_input(audio, text, p)

(***************************************************************************)
(* ERPAssistant.confirm_and_save (confirm_btn, on the recognized text)     *)
(***************************************************************************)
Row(request) ==
  [reason |-> request.reason, project |-> request.project_id,
   request_amount |-> request.amount]

\* confirm_and_save persisting the session text instead of the text given
confirm_and_save_session_text(text_input, p) ==
  IF text_input = <<>>
  THEN /\ result' = "No request to confirm"
       /\ last_call' = Call("confirm_and_save", None, Some(text_input),
                            NoPorts, None, None)
       /\ UNCHANGED <<last_request, recognized_text, response_text,
                      confirmation_group, additional_input_group>>
  ELSE LET request == process_request(Val(last_request.text), p.ner, p.qa,
                                      p.zero_shot)
       IN /\ result' = "Request saved successfully!"
          /\ last_call' = Call("confirm_and_save", None, Some(text_input), p,
                               None, Some(Row(request)))
          /\ UNCHANGED <<last_request, recognized_text, response_text,
                         confirmation_group, additional_input_group>>

\* confirm_and_save on one MoneyRequest shared by all the assemblies: a slot
\* the pass leaves empty keeps the value the previous turn gave it
confirm_and_save_shared_request(text_input, p) ==
  IF text_input = <<>>
  THEN /\ result' = "No request to confirm"
       /\ last_call' = Call("confirm_and_save", None, Some(text_input),
                            NoPorts, None, None)
       /\ UNCHANGED <<last_request, recognized_text, response_text,
                      confirmation_group, additional_input_group>>
  ELSE LET fresh == call_process_request(text_input, p.ner, p.qa,
                                          p.zero_shot)
           old == IF last_call.ret # None /\ Val(last_call.ret).request # None
                  THEN Val(Val(last_call.ret).request)
                  ELSE MoneyRequest
           request ==
             [project_id |-> IF fresh.project_id = None THEN old.project_id
                             ELSE fresh.project_id,
              amount |-> IF fresh.amount = None THEN old.amount
                         ELSE fresh.amount,
              reason |-> IF fresh.reason = None THEN old.reason
                         ELSE fresh.reason]
       IN /\ result' = "Request saved successfully!"
          /\ last_call' = Call("confirm_and_save", None, Some(text_input), p,
                               None, Some(Row(request)))
          /\ UNCHANGED <<last_request, recognized_text, response_text,
                         confirmation_group, additional_input_group>>

confirm_and_save(text_input, p) ==
  IF text_input = <<>>
  THEN /\ result' = "No request to confirm"
       /\ last_call' = Call("confirm_and_save", None, Some(text_input),
                            NoPorts, None, None)
       /\ UNCHANGED <<last_request, recognized_text, response_text,
                      confirmation_group, additional_input_group>>
  ELSE LET request == call_process_request(text_input, p.ner, p.qa,
                                            p.zero_shot)
       IN /\ result' = "Request saved successfully!"
          /\ last_call' = Call("confirm_and_save", None, Some(text_input), p,
                               None, Some(Row(request)))
          /\ UNCHANGED <<last_request, recognized_text, response_text,
                         confirmation_group, additional_input_group>>

ConfirmAndSave ==
  /\ confirmation_group
  /\ \E p \in TurnPorts(None, Some(recognized_text)) :
       confirm_and_save(recognized_text, p)

(***************************************************************************)
(* clear_btn                                                               *)
(***************************************************************************)
Clear ==
  /\ recognized_text' = <<>>
  /\ response_text' = EmptyMsg
  /\ confirmation_group' = FALSE
  /\ additional_input_group' = FALSE
  /\ last_call' = Call("clear", None, None, NoPorts, None, None)
  /\ UNCHANGED <<last_request, result>>

Next == Process \/ HandleAdditionalInput \/ ConfirmAndSave \/ Clear

Spec == Init /\ [][Next]_vars

(***************************************************************************)
(* Properties                                                              *)
(***************************************************************************)
\* the last handler call was a turn (submit or follow-up) that ran the
\* assembler
TurnAssembled ==
  /\ last_call.op \in {"process", "handle_additional_input"}
  /\ last_call.ret # None
  /\ Val(last_call.ret).request # None

\* the last handler call was a follow-up that merged a fragment
FollowUpMerged ==
  /\ last_call.op = "handle_additional_input"
  /\ last_call.fragment # None

TurnRet == Val(last_call.ret)

TurnRequest == Val(TurnRet.request)

SlotOf(request, field) ==
  CASE field = Some("project") -> request.project_id
    [] field = Some("amount") -> request.amount
    [] field = Some("reason") -> request.reason

Populated(request) ==
  request.project_id # None /\ request.amount # None /\ request.reason # None

\* C1: the prompt of a turn never asks for a slot that the assembler
\* reports as populated for the same text: missing_field is always a slot
\* whose assembled value is None.
C1_AskedSlotIsNone ==
  (TurnAssembled /\ TurnRet.missing_field # None)
    => SlotOf(TurnRequest, TurnRet.missing_field) = None

\* C2: after every follow-up turn the session's accumulated text is the
\* merged text and its pending slot is the slot that turn reported.
C2_SessionHoldsMergedText ==
  (FollowUpMerged /\ last_call.ret # None)
    => /\ last_request.text = last_call.text
       /\ last_request.missing_field = TurnRet.missing_field

\* AwaitingProject < AwaitingAmount < AwaitingReason < Complete
Rank(field) ==
  CASE field = Some("project") -> 1
    [] field = Some("amount") -> 2
    [] field = Some("reason") -> 3
    [] OTHER -> 4

\* C3: a follow-up turn leaves the dialogue state where the session was or
\* moves it forward, never to an earlier state.
C3_NeverBackwards ==
  (FollowUpMerged /\ TurnAssembled)
    => Rank(TurnRet.missing_field) >= Rank(last_request.missing_field)

\* C4: on a non-empty utterance the slot-fill priority is project, amount,
\* reason: an absent project_id gives the project prompt whatever the other
\* slots are, the amount prompt comes only with project_id populated, the
\* reason prompt only with project_id and amount populated, and the turn is
\* complete, with the confirmation message, only with all three populated.
C4_PriorityOrder ==
  TurnAssembled =>
    /\ TurnRequest.project_id = None
         => /\ TurnRet.missing_field = Some("project")
            /\ TurnRet.response = ProjectPrompt
    /\ TurnRet.missing_field = Some("amount")
         => /\ TurnRequest.project_id # None
            /\ TurnRet.response = AmountPrompt
    /\ TurnRet.missing_field = Some("reason")
         => /\ TurnRequest.project_id # None
            /\ TurnRequest.amount # None
            /\ TurnRet.response = ReasonPrompt
    /\ TurnRet.show_confirm
         => /\ Populated(TurnRequest)
            /\ TurnRet.missing_field = None
            /\ TurnRet.response = generate_confirmation_message(TurnRequest)
    /\ TurnRet.show_confirm \/ TurnRet.missing_field # None

\* C4 witness: a turn that asks for the amount while the reason is already
\* populated, reached after a turn order that has the project populated
C4_Witness ==
  /\ TurnAssembled
  /\ TurnRet.missing_field = Some("amount")
  /\ TurnRequest.reason # None

\* s with its first occurrence of old replaced by new
replace_first(s, old, new) ==
  LET i == Find(s, old)
  IN IF i = 0 THEN s
     ELSE SubSeq(s, 1, i - 1) \o new \o SubSeq(s, i + Len(old), Len(s))

\* C5: in AwaitingProject a follow-up merges its fragment by replacing only
\* the first "project" of the accumulated text with "project <fragment>".
C5_FirstOccurrenceOnly ==
  (FollowUpMerged /\ last_request.missing_field = Some("project"))
    => last_call.text =
         Some(replace_first(Val(last_request.text), s_project,
                            s_project \o <<" ">> \o Val(last_call.fragment)))

\* C6: in AwaitingAmount a follow-up f turns the accumulated text t into
\* exactly t + " " + f + " riyals", in AwaitingReason into t + " to " + f.
C6_AppendMerge ==
  FollowUpMerged =>
    /\ last_request.missing_field = Some("amount")
         => last_call.text =
              Some(Val(last_request.text) \o <<" ">> \o Val(last_call.fragment)
                   \o <<" ", "r", "i", "y", "a", "l", "s">>)
    /\ last_request.missing_field = Some("reason")
         => last_call.text =
              Some(Val(last_request.text) \o <<" ", "t", "o", " ">>
                   \o Val(last_call.fragment))

\* C6 witness: "project 223" awaiting the amount, fragment "500", merged
\* into "project 223 500 riyals"
C6_Witness ==
  /\ FollowUpMerged
  /\ last_request = [text |-> Some(Join(<<s_project, w_223>>)),
                     missing_field |-> Some("amount")]
  /\ last_call.fragment = Some(w_500)
  /\ last_call.text = Some(Join(<<s_project, w_223, w_500, s_riyals>>))
  /\ recognized_text = Join(<<s_project, w_223, w_500, s_riyals>>)


\* the last handler call was a confirm that appended a row
Saved == last_call.op = "confirm_and_save" /\ last_call.appended # None

\* C7: confirm re-runs the assembly on the text it is given and persists
\* the record of that text: the row appended is the assembly of the
\* recognized text under the responses met during the confirm, whatever
\* the session text and the earlier turns were.
C7_ConfirmReassembles ==
  Saved =>
    /\ last_call.text = Some(recognized_text)
    /\ Val(last_call.appended) =
         Row(process_request(recognized_text, last_call.ports.ner,
                             last_call.ports.qa, last_call.ports.zero_shot))

\* C7 witness: the text confirmed is a merged text that differs from the
\* session text, and the row has the project the session text lacked
C7_Witness ==
  /\ Saved
  /\ last_request.text # Some(recognized_text)
  /\ last_request.missing_field = Some("project")
  /\ Val(last_call.appended).project # None

\* the rule table of the confidence score, in tenths
C8_Score(field, value) ==
  IF value = None THEN 0
  ELSE IF field = "amount" THEN 10
  ELSE IF field = "project_id"
          /\ ((Val(value) # <<>> /\ \A i \in 1..Len(Val(value)) :
                                     Val(value)[i] \in Digits)
              \/ Len(Val(value)) > 2)
  THEN 9
  ELSE IF field = "reason" /\ Len(Val(value)) > 10 THEN 8
  ELSE 5

C8_Gate(field, raw, slot) ==
  /\ slot = (IF C8_Score(field, raw) > 5 THEN raw ELSE None)
  /\ slot = None \/ C8_Score(field, slot) > 5

\* C8: every slot of an assembled request is None or a value whose score in
\* the rule table is strictly greater than 0.5; an extracted value scoring
\* exactly 0.5 is cleared to None.
C8_SlotsClearThreshold ==
  TurnAssembled =>
    LET text == TurnRet.recognized_text
        p == last_call.ports
    IN /\ C8_Gate("project_id", extract_project_id(text, p.ner),
                  TurnRequest.project_id)
       /\ C8_Gate("amount", extract_amount(text, p.qa), TurnRequest.amount)
       /\ C8_Gate("reason", extract_reason(text, p.zero_shot),
                  TurnRequest.reason)

\* C8 witness: the extractor found the two-letter name "ab", which scores
\* exactly 0.5, and the assembled project_id is None
C8_Witness ==
  /\ TurnAssembled
  /\ extract_project_id(TurnRet.recognized_text, last_call.ports.ner)
       = Some(w_ab)
  /\ TurnRequest.project_id = None
  /\ TurnRequest.amount # None

\* C9: a pipeline call that throws inside an extractor is swallowed: the
\* slot of that extractor is None, the other two slots are what they are
\* when the call answers instead, and the turn returns a prompt or the
\* confirmation for its text.
C9_FailureSwallowed ==
  TurnAssembled =>
    LET text == TurnRet.recognized_text
        p == last_call.ports
        q == TurnRequest
    IN /\ p.ner.status = "raise"
            => /\ q.project_id = None
               /\ \A r \in NerResponses :
                    LET q2 == process_request(text, r, p.qa, p.zero_shot)
                    IN q2.amount = q.amount /\ q2.reason = q.reason
       /\ p.qa.status = "raise"
            => /\ q.amount = None
               /\ \A r \in QaResponses :
                    LET q2 == process_request(text, p.ner, r, p.zero_shot)
                    IN q2.project_id = q.project_id /\ q2.reason = q.reason
       /\ p.zero_shot.status = "raise"
            => /\ q.reason = None
               /\ \A r \in ZeroShotResponses :
                    LET q2 == process_request(text, p.ner, p.qa, r)
                    IN q2.project_id = q.project_id /\ q2.amount = q.amount
       /\ (p.ner.status = "raise" \/ p.qa.status = "raise"
           \/ p.zero_shot.status = "raise")
            => /\ Some(text) = last_call.text
               /\ TurnRet.response \in
                    {ProjectPrompt, AmountPrompt, ReasonPrompt,
                     generate_confirmation_message(q)}

\* C9 witness: the NER call threw, the turn asks for the project, and the
\* amount and the reason are populated all the same
C9_Witness ==
  /\ TurnAssembled
  /\ last_call.ports.ner.status = "raise"
  /\ TurnRet.missing_field = Some("project")
  /\ TurnRequest.amount # None
  /\ TurnRequest.reason # None

\* C10: a failed turn (transcription failure or empty input) leaves the
\* session as it was: its accumulated text and pending slot are unchanged.
C10_FailedTurnKeepsSession ==
  [][ ( /\ last_call'.op \in {"process", "handle_additional_input"}
        /\ (last_call'.ret = None \/ Val(last_call'.ret).request = None) )
      => last_request' = last_request ]_vars

\* the token that follows the first "project" of a text, None when the text
\* has no "project" or nothing but blanks after it
C11_TokenAfterProject(text) ==
  LET low == lower(text)
      i == Find(low, s_project)
      words == IF i = 0 THEN <<>>
               ELSE split_ws(SubSeq(low, i + Len(s_project), Len(low)))
  IN IF words = <<>> THEN None ELSE Some(words[1])

\* C11: when the token right after the first "project" of a text is "to" or
\* "buy", extract_project_id returns None whatever the NER pipeline
\* returns, and the turn asks for the project with the project prompt.
C11_NoProjectBeforeToBuy ==
  TurnAssembled =>
    LET text == TurnRet.recognized_text
    IN C11_TokenAfterProject(text) \in {Some(s_to), Some(s_buy)}
         => /\ \A r \in NerResponses : extract_project_id(text, r) = None
            /\ TurnRequest.project_id = None
            /\ TurnRet.missing_field = Some("project")
            /\ TurnRet.response = ProjectPrompt

\* C11 witness: "project to buy tools for project" while the NER pipeline
\* tags "tools", a word of the text after "project", as ORG
C11_Witness ==
  /\ TurnAssembled
  /\ C11_TokenAfterProject(TurnRet.recognized_text) = Some(s_to)
  /\ last_call.ports.ner.status = "ok"
  /\ \E i \in 1..Len(last_call.ports.ner.value) :
       /\ last_call.ports.ner.value[i].entity = "ORG"
       /\ In(last_call.ports.ner.value[i].word, TurnRet.recognized_text)
  /\ TurnRet.missing_field = Some("project")

C13_PersistOnlyComplete ==
  /\ (confirmation_group
      /\ last_call.op \in {"process", "handle_additional_input"})
       => (last_call.ret # None /\ TurnRet.show_confirm)
  /\ Saved =>
       /\ Val(last_call.appended).project # None
       /\ Val(last_call.appended).request_amount # None
       /\ Val(last_call.appended).reason # None

\* C14: for a follow-up submitted while a slot is pending, the merged text
\* handed to the assembler contains the fragment, and it is never the
\* accumulated text unchanged.
C14_MergeContainsFragment ==
  (FollowUpMerged /\ last_request.missing_field # None)
    => /\ In(Val(last_call.fragment), Val(last_call.text))
       /\ last_call.text # last_request.text

\* C15: from AwaitingReason a follow-up with a non-empty fragment, when no
\* pipeline call of the turn fails, fills the reason slot and completes the
\* request.
C15_ReasonFollowUpCompletes ==
  ( /\ FollowUpMerged
    /\ TurnAssembled
    /\ last_request.missing_field = Some("reason")
    /\ last_call.ports.ner.status # "raise"
    /\ last_call.ports.qa.status # "raise"
    /\ last_call.ports.zero_shot.status # "raise" )
    => /\ TurnRequest.reason # None
       /\ TurnRet.show_confirm

\* the text after the first "project" of a text
C16_Segment(text) ==
  SubSeq(text, Find(lower(text), s_project) + Len(s_project), Len(text))

\* the first all-digit token of a sequence of tokens, None when it has none
C16_FirstDigitToken(words) ==
  LET hits == {i \in 1..Len(words) :
                 words[i] # <<>> /\ \A j \in 1..Len(words[i]) :
                                      words[i][j] \in Digits}
  IN IF hits = {} THEN None
     ELSE Some(words[CHOOSE i \in hits : \A j \in hits : i <= j])

\* the trimmed text between "project" and the first "to buy", None when it
\* is empty or contains "amount"
C16_Candidate(text) ==
  LET seg == C16_Segment(text)
      cut == Find(lower(seg), s_to_buy)
      name == strip(IF cut = 0 THEN seg ELSE SubSeq(seg, 1, cut - 1))
  IN IF name = <<>> \/ In(s_amount, lower(name)) THEN None ELSE Some(name)

\* the NER pipeline answered and gave no qualifying entity, and the token
\* after "project" is neither "to" nor "buy"
C16_Fallback(text, ner) ==
  /\ In(s_project, lower(text))
  /\ ner.status = "ok"
  /\ \A i \in 1..Len(ner.value) :
       ~(In(ner.value[i].word, lower(C16_Segment(text)))
         /\ ner.value[i].entity \in {"ORG", "MISC", "NUM"})
  /\ C11_TokenAfterProject(text) \notin {None, Some(s_to), Some(s_buy)}

\* C16: in the fallback of extract_project_id, a text whose part after
\* "project" has an all-digit token gives the first all-digit token; only a
\* text without one gives the trimmed text between "project" and the first
\* "to buy", or None when that text is empty or contains "amount".
C16_DigitTokenFirst ==
  (TurnAssembled
   /\ C16_Fallback(TurnRet.recognized_text, last_call.ports.ner))
    => LET text == TurnRet.recognized_text
           digit == C16_FirstDigitToken(split_ws(lower(C16_Segment(text))))
       IN extract_project_id(text, last_call.ports.ner)
            = (IF digit # None THEN digit ELSE C16_Candidate(text))

\* s cut at the earliest occurrence in it of any of the delimiters
C17_CutAtEarliest(s) ==
  LET hits == {Find(s, d) : d \in {s_and, s_the_amount, s_i_need}} \ {0}
  IN IF hits = {} THEN s
     ELSE SubSeq(s, 1, (CHOOSE i \in hits : \A j \in hits : i <= j) - 1)

\* the whole (lower-cased) text following the first "buy"
C17_AfterFirstBuy(text) ==
  SubSeq(lower(text), Find(lower(text), s_buy) + Len(s_buy), Len(text))

\* C17: for a text containing "buy" the reason is "buy <span> for the
\* project (<category>)", where <span> is the whole text following the
\* first "buy", cut at the earliest occurrence of "and", "the amount" or
\* "i need" and trimmed, and <category> is the top label of the zero-shot
\* pipeline.
C17_ReasonSpan ==
  (TurnAssembled
   /\ In(s_buy, lower(TurnRet.recognized_text))
   /\ last_call.ports.zero_shot.status = "ok")
    => extract_reason(TurnRet.recognized_text, last_call.ports.zero_shot)
         = Some(s_buy \o <<" ">>
                \o strip(C17_CutAtEarliest(
                           C17_AfterFirstBuy(TurnRet.recognized_text)))
                \o <<" ">> \o s_for_the_project \o <<" ", "(">>
                \o last_call.ports.zero_shot.value[1] \o <<")">>)

\* the value of the digits of s, concatenated in order, after acc
RECURSIVE C18_DigitsValue(_, _)
C18_DigitsValue(s, acc) ==
  IF s = <<>> THEN acc
  ELSE C18_DigitsValue(Tail(s), IF Head(s) \in Digits
                                THEN 10 * acc + DigitVal(Head(s))
                                ELSE acc)

\* C18: extract_amount returns None, never zero, when the QA call fails or
\* its answer has no digit; a number it returns is the value of the digits
\* of the answer concatenated in order, never negative; the gate passes it
\* on unchanged.
C18_AmountOrNone ==
  TurnAssembled =>
    LET qa == last_call.ports.qa
        a == extract_amount(TurnRet.recognized_text, qa)
    IN /\ (qa.status = "raise"
           \/ \A i \in 1..Len(qa.value) : qa.value[i] \notin Digits)
            => a = None
       /\ a # None
            => /\ qa.status = "ok"
               /\ Val(a) = C18_DigitsValue(qa.value, 0)
               /\ Val(a) >= 0
       /\ TurnRequest.amount = a

\* C18 witness: the QA answer "tools" has no digit and the amount is None,
\* not zero, so that the turn asks for the amount
C18_Witness ==
  /\ TurnAssembled
  /\ last_call.ports.qa = Ok(w_tools)
  /\ TurnRequest.amount = None
  /\ TurnRet.missing_field = Some("amount")

=============================================================================
